---- MODULE Spec2Model ----
(***************************************************************************)
(* A model of the geospatial crate (src/src/lib.rs):                       *)
(*   marching_squares          boundary edges of a labelled grid           *)
(*   edges_to_multilinestring  ring assembly, with its helpers adjcoords   *)
(*                             and aring                                   *)
(*   rasterize_linestring      supercover rasterisation of a polyline      *)
(*                                                                         *)
(* Coordinates are records [x, y]; an edge is a pair <<a, b>> of them; a   *)
(* grid is a record [nrows, ncols, cells] with cells[<<r, c>>] the label   *)
(* of row r, column c (both counted from 0, as ndarray does).              *)
(***************************************************************************)
EXTENDS Integers, Sequences, FiniteSets

VARIABLES grid,     \* the grid handed to edges_to_multilinestring
          id,       \* the label handed to edges_to_multilinestring
          mgrid,    \* the grid handed to marching_squares
          pick,     \* how the caller forms the edge list from marching_squares' map
          e,        \* the map returned by marching_squares (<<>> before the call)
          inedges,  \* the parameter edges of edges_to_multilinestring
          edges,    \* the working copy (lib.rs:512)
          adj,      \* the adjacency map of the current iteration (lib.rs:521)
          rings,    \* the rings pushed so far (lib.rs:516)
          start, cur, prev, ring,   \* the locals of aring
          pc,       \* the position of the call
          ls, w, out                \* rasterize_linestring: input, window, output

vars == <<grid, id, mgrid, pick, e, inedges, edges, adj, rings,
          start, cur, prev, ring, pc, ls, w, out>>

asmVars == <<grid, id, mgrid, pick, e, inedges, edges, adj, rings,
             start, cur, prev, ring>>

rasVars == <<ls, w, out>>

---------------------------------------------------------------------------
(* Bounds of the model.                                                    *)

\* grids of the extraction-and-assembly pipeline have at most MaxCells cells
MaxCells == 9
\* grids of the calls with a caller-made edge list have at most EdgeCells cells
EdgeCells == 6
\* a trace is followed for at most MaxRing pushed vertices
MaxRing == 28
\* polylines have at most MaxPts vertices, with coordinates in -1..MaxCoord
MaxPts == 3
MaxCoord == 1

\* The labels cells are drawn from. A label's edge list and the trace for it
\* read the grid only through me != right, me != down and grid[..] == id.
Labels == {0, 1}

---------------------------------------------------------------------------
(* Generic helpers.                                                        *)

Coord(x, y) == [x |-> x, y |-> y]

\* F(lo) \o F(lo+1) \o ... \o F(hi-1): the pushes of `for i in lo..hi`
FlatMap(lo, hi, F(_)) ==
  LET f[i \in lo..hi] == IF i >= hi THEN <<>> ELSE F(i) \o f[i + 1]
  IN IF lo >= hi THEN <<>> ELSE f[lo]

Range(s) == {s[i] : i \in 1..Len(s)}

Last(s) == s[Len(s)]

Shapes(m) == {s \in (1..m) \X (1..m) : s[1] * s[2] <= m}

GridsOf(m) ==
  UNION {{[nrows |-> s[1], ncols |-> s[2], cells |-> f] :
            f \in [(0..(s[1] - 1)) \X (0..(s[2] - 1)) -> Labels]} : s \in Shapes(m)}

InGrid(g, r, c) == r >= 0 /\ r < g.nrows /\ c >= 0 /\ c < g.ncols

At(g, r, c) == g.cells[<<r, c>>]

LabelsIn(g) == {g.cells[p] : p \in DOMAIN g.cells}

---------------------------------------------------------------------------
(* marching_squares, lib.rs:224-297.  Pushes(g) is the sequence of         *)
(* ret.entry(label).or_default().push(edge) calls in program order, each   *)
(* a pair <<label, edge>>.                                                 *)

Push(l, a, b) == <<<<l, <<a, b>>>>>>

\* lib.rs:232-241
BorderRowPushes(g) ==
  LET F(c) == Push(At(g, 0, c), Coord(c, 0), Coord(c + 1, 0))
              \o Push(At(g, g.nrows - 1, c),
                      Coord(c, g.nrows), Coord(c + 1, g.nrows))
  IN FlatMap(0, g.ncols, F)

\* lib.rs:242-251
BorderColPushes(g) ==
  LET F(r) == Push(At(g, r, 0), Coord(0, r), Coord(0, r + 1))
              \o Push(At(g, r, g.ncols - 1),
                      Coord(g.ncols, r), Coord(g.ncols, r + 1))
  IN FlatMap(0, g.nrows, F)

\* lib.rs:259-263 and 289-293
RightPushes(g, r, c) ==
  LET me == At(g, r, c)
      right == At(g, r, c + 1)
  IN IF me # right
       THEN Push(me, Coord(c + 1, r), Coord(c + 1, r + 1))
            \o Push(right, Coord(c + 1, r), Coord(c + 1, r + 1))
       ELSE <<>>

\* a variant that files the edge below a cell under the upper cell's label only
DownPushesOneSided(g, r, c) ==
  LET me == At(g, r, c)
      down == At(g, r + 1, c)
  IN IF me # down
       THEN Push(me, Coord(c, r + 1), Coord(c + 1, r + 1))
       ELSE <<>>

\* lib.rs:264-268 and 277-281
DownPushes(g, r, c) ==
  LET me == At(g, r, c)
      down == At(g, r + 1, c)
  IN IF me # down
       THEN Push(me, Coord(c, r + 1), Coord(c + 1, r + 1))
            \o Push(down, Coord(c, r + 1), Coord(c + 1, r + 1))
       ELSE <<>>

\* lib.rs:254-270
InteriorPushes(g) ==
  LET Row(r) == LET Cell(c) == RightPushes(g, r, c) \o DownPushes(g, r, c)
                IN FlatMap(0, g.ncols - 1, Cell)
  IN FlatMap(0, g.nrows - 1, Row)

\* lib.rs:273-282
LastColPushes(g) ==
  LET F(r) == DownPushes(g, r, g.ncols - 1)
  IN FlatMap(0, g.nrows - 1, F)

\* lib.rs:285-294
LastRowPushes(g) ==
  LET F(c) == RightPushes(g, g.nrows - 1, c)
  IN FlatMap(0, g.ncols - 1, F)

Pushes(g) ==
  BorderRowPushes(g) \o BorderColPushes(g) \o InteriorPushes(g)
  \o LastColPushes(g) \o LastRowPushes(g)

RECURSIVE EdgesOf(_, _)
\* the entries pushed to label l, in order
EdgesOf(ps, l) ==
  IF ps = <<>> THEN <<>>
  ELSE (IF ps[1][1] = l THEN <<ps[1][2]>> ELSE <<>>) \o EdgesOf(Tail(ps), l)

\* the returned HashMap: a key for every label pushed to
marching_squares(g) ==
  LET ps == Pushes(g)
  IN [l \in {ps[i][1] : i \in 1..Len(ps)} |-> EdgesOf(ps, l)]

---------------------------------------------------------------------------
(* edges_to_multilinestring, lib.rs:403-540.                               *)

\* what a panicking helper yields instead of its array or Vec
Panic == <<>>

\* grid[[r, c]] == idv selects the exit; an index outside the grid panics
\* (a usize that wrapped below 0 is outside the grid as well)
KnotExit(g, r, c, idv, p, hit, miss) ==
  IF ~InGrid(g, r, c) THEN Panic
  ELSE IF At(g, r, c) = idv THEN <<p, hit>> ELSE <<p, miss>>

\* a variant whose leftward case reads the cell up and left, as the rightward one
adjcoordsSameCell(p, c, idv, g, checked) ==
  LET row == c.y
      col == c.x
  IN IF c.x = 0 /\ checked THEN Panic
     ELSE IF c.x > 0 /\ p.x = c.x - 1
       THEN KnotExit(g, row - 1, col - 1, idv, p,
                     Coord(col, row - 1), Coord(col, row + 1))
     ELSE IF p.x = c.x + 1
       THEN KnotExit(g, row - 1, col - 1, idv, p,
                     Coord(col, row - 1), Coord(col, row + 1))
     ELSE IF c.y = 0 /\ checked THEN Panic
     ELSE IF c.y > 0 /\ p.y = c.y - 1
       THEN KnotExit(g, row - 1, col - 1, idv, p,
                     Coord(col - 1, row), Coord(col + 1, row))
     ELSE KnotExit(g, row, col - 1, idv, p,
                   Coord(col - 1, row), Coord(col + 1, row))

\* lib.rs:410-454.  checked: the build traps usize overflow (c.x-1 with
\* c.x = 0 panics); otherwise the subtraction wraps and the test is false.
adjcoords(p, c, idv, g, checked) ==
  LET row == c.y
      col == c.x
  IN IF c.x = 0 /\ checked THEN Panic
     ELSE IF c.x > 0 /\ p.x = c.x - 1
       THEN KnotExit(g, row - 1, col - 1, idv, p,
                     Coord(col, row - 1), Coord(col, row + 1))
     ELSE IF p.x = c.x + 1
       THEN KnotExit(g, row - 1, col, idv, p,
                     Coord(col, row - 1), Coord(col, row + 1))
     ELSE IF c.y = 0 /\ checked THEN Panic
     ELSE IF c.y > 0 /\ p.y = c.y - 1
       THEN KnotExit(g, row - 1, col - 1, idv, p,
                     Coord(col - 1, row), Coord(col + 1, row))
     ELSE KnotExit(g, row, col - 1, idv, p,
                   Coord(col - 1, row), Coord(col + 1, row))

\* a variant that records each edge at its first endpoint only
NeighboursOneWay(es, v) ==
  LET f[i \in 0..Len(es)] ==
        IF i = 0 THEN <<>>
        ELSE f[i - 1] \o (IF es[i][1] = v THEN <<es[i][2]>> ELSE <<>>)
  IN f[Len(es)]

\* lib.rs:521-525: the Vec pushed for vertex v, in the order of the edges
Neighbours(es, v) ==
  LET f[i \in 0..Len(es)] ==
        IF i = 0 THEN <<>>
        ELSE f[i - 1] \o (IF es[i][1] = v THEN <<es[i][2]>> ELSE <<>>)
                      \o (IF es[i][2] = v THEN <<es[i][1]>> ELSE <<>>)
  IN f[Len(es)]

AdjOf(es) ==
  [v \in {es[i][1] : i \in 1..Len(es)} \cup {es[i][2] : i \in 1..Len(es)}
     |-> Neighbours(es, v)]

\* lib.rs:473-479: the slice n whose n[0] is the first prev of a trace from s
FirstPrev(a, s, idv, g, checked) ==
  LET n == a[s]
  IN IF Len(n) = 4 THEN adjcoords(n[1], s, idv, g, checked) ELSE n

\* a variant that follows the adjacency list at a knot as anywhere else
NextPairPlain(a, p, c, idv, g, checked) ==
  IF c \notin DOMAIN a THEN Panic ELSE a[c]

\* lib.rs:488-494: the neighbour pair consulted at cur
NextPair(a, p, c, idv, g, checked) ==
  IF c \notin DOMAIN a THEN Panic
  ELSE IF Len(a[c]) = 4 THEN adjcoords(p, c, idv, g, checked)
  ELSE a[c]

\* a variant that collects the windows in the direction of travel only
MyEdgesForward(r) == {<<r[i], r[i + 1]>> : i \in 1..(Len(r) - 1)}

\* lib.rs:534: both directions of every window of the ring
MyEdges(r) ==
  {<<r[i], r[i + 1]>> : i \in 1..(Len(r) - 1)}
  \cup {<<r[i + 1], r[i]>> : i \in 1..(Len(r) - 1)}

\* a variant that only refuses vertices with more than four neighbours
AllDegAtMost4(a) == \A v \in DOMAIN a : Len(a[v]) <= 4

\* lib.rs:526, the asserted condition
AllDeg24(a) == \A v \in DOMAIN a : Len(a[v]) = 2 \/ Len(a[v]) = 4

\* a variant whose filter keeps the ring's edges instead of dropping them
RemainingInverted(es, r) ==
  LET my == MyEdges(r)
      Keep(x) == x \in my
  IN SelectSeq(es, Keep)

\* lib.rs:535
Remaining(es, r) ==
  LET my == MyEdges(r)
      Keep(x) == x \notin my
  IN SelectSeq(es, Keep)

\* a variant that returns the ring without the closing push
Unclosed(r, s) == r

\* lib.rs:506: ring.push(start)
Closed(r, s) == Append(r, s)

\* the list a caller hands over, formed from one label's list l
Passed(l, pk) ==
  CASE pk.kind = "asis" -> l
    [] pk.kind = "drop" -> SubSeq(l, 1, pk.k - 1) \o SubSeq(l, pk.k + 1, Len(l))
    [] pk.kind = "dup" -> Append(l, l[pk.k])
    [] pk.kind = "twice" -> l \o l

---------------------------------------------------------------------------
(* The actions.                                                            *)

\* marching_squares(&mgrid)
MarchingSquares ==
  /\ pc = "ms"
  /\ e' = marching_squares(mgrid)
  /\ pc' = "call"
  /\ UNCHANGED <<grid, id, mgrid, pick, inedges, edges, adj, rings,
                 start, cur, prev, ring, ls, w, out>>

\* edges_to_multilinestring(id, &e[&label], &grid) up to the loop, lib.rs:511-516
Call ==
  /\ pc = "call"
  /\ pick.label \in DOMAIN e
  /\ inedges' = Passed(e[pick.label], pick)
  /\ edges' = inedges'
  /\ rings' = <<>>
  /\ pc' = "loop"
  /\ UNCHANGED <<grid, id, mgrid, pick, e, adj, start, cur, prev, ring, ls, w, out>>

\* a variant that starts at the first endpoint of the last edge
StartOfLast(es) == es[Len(es)][1]

\* lib.rs:529: first point of first edge
StartOf(es) == es[1][1]

\* one pass of lib.rs:517-531 up to the loop of aring (lib.rs:466-479)
BuildAdj ==
  /\ pc = "loop"
  /\ Len(edges) # 0
  /\ adj' = AdjOf(edges)
  /\ \E checked \in BOOLEAN :
       LET s == StartOf(edges)
           p == IF AllDeg24(adj') THEN FirstPrev(adj', s, id, grid, checked) ELSE Panic
       IN IF p = Panic
            THEN /\ pc' = "panic"
                 /\ UNCHANGED <<start, cur, prev, ring>>
            ELSE /\ start' = s
                 /\ cur' = s
                 /\ prev' = p[1]
                 /\ ring' = <<>>
                 /\ pc' = "trace"
  /\ UNCHANGED <<grid, id, mgrid, pick, e, inedges, edges, rings, ls, w, out>>

\* one pass of the loop of aring, lib.rs:481-505
Step ==
  /\ pc = "trace"
  /\ Len(ring) < MaxRing
  /\ ring' = Append(ring, cur)
  /\ \E checked \in BOOLEAN :
       LET n == NextPair(adj, prev, cur, id, grid, checked)
       IN IF n = Panic
            THEN /\ pc' = "panic"
                 /\ UNCHANGED <<cur, prev>>
          ELSE IF prev = n[1] /\ n[2] # start
            THEN /\ prev' = cur
                 /\ cur' = n[2]
                 /\ pc' = "trace"
          ELSE IF prev = n[2] /\ n[1] # start
            THEN /\ prev' = cur
                 /\ cur' = n[1]
                 /\ pc' = "trace"
          ELSE /\ pc' = "close"
               /\ UNCHANGED <<cur, prev>>
  /\ UNCHANGED <<grid, id, mgrid, pick, e, inedges, edges, adj, rings, start,
                 ls, w, out>>

\* lib.rs:506-508 and 532-535
CloseRing ==
  /\ pc = "close"
  /\ LET r == Closed(ring, start)
     IN /\ ring' = r
        /\ rings' = Append(rings, r)
        /\ edges' = Remaining(edges, r)
  /\ pc' = "loop"
  /\ UNCHANGED <<grid, id, mgrid, pick, e, inedges, adj, start, cur, prev,
                 ls, w, out>>

\* lib.rs:517 with no edge left, and 538
Return ==
  /\ pc = "loop"
  /\ Len(edges) = 0
  /\ pc' = "done"
  /\ UNCHANGED <<asmVars, rasVars>>

NoCoord == Coord(0, 0)

InitLocals ==
  /\ e = <<>>
  /\ inedges = <<>>
  /\ edges = <<>>
  /\ adj = <<>>
  /\ rings = <<>>
  /\ start = NoCoord
  /\ cur = NoCoord
  /\ prev = NoCoord
  /\ ring = <<>>

\* no rasterisation under way
NoRaster ==
  /\ ls = <<>>
  /\ w = 0
  /\ out = <<>>

\* the documented use: the list of a label of the grid, with that grid
Init ==
  /\ grid \in GridsOf(MaxCells)
  /\ id \in LabelsIn(grid)
  /\ mgrid = grid
  /\ pick = [label |-> id, kind |-> "asis", k |-> 0]
  /\ pc = "ms"
  /\ InitLocals
  /\ NoRaster

Next ==
  \/ MarchingSquares
  \/ Call
  \/ BuildAdj
  \/ Step
  \/ CloseRing
  \/ Return

Spec == Init /\ [][Next]_vars

\* g with one cell relabelled
Relabelled(g) ==
  UNION {{[g EXCEPT !.cells[q] = v] : v \in Labels \ {g.cells[q]}} : q \in DOMAIN g.cells}

AsIs(l) == [label |-> l, kind |-> "asis", k |-> 0]

\* the calls a caller can make around grid g: any label's list; the list of
\* a grid that differs in one cell; a list with one entry lost, with one
\* entry repeated, or taken twice
Calls(g) ==
  {[mgrid |-> g, pick |-> AsIs(l)] : l \in LabelsIn(g)}
  \cup UNION {{[mgrid |-> h, pick |-> AsIs(l)] : l \in LabelsIn(h)} : h \in Relabelled(g)}
  \cup UNION {{[mgrid |-> g, pick |-> [label |-> l, kind |-> kd, k |-> n]] :
                 kd \in {"drop", "dup"}, n \in 1..Len(marching_squares(g)[l])} :
               l \in LabelsIn(g)}
  \cup {[mgrid |-> g, pick |-> [label |-> l, kind |-> "twice", k |-> 0]] : l \in LabelsIn(g)}

\* any use: a grid, a label, and an edge list the caller made
InitEdges ==
  /\ grid \in GridsOf(EdgeCells)
  /\ id \in Labels
  /\ \E c \in Calls(grid) : mgrid = c.mgrid /\ pick = c.pick
  /\ pc = "ms"
  /\ InitLocals
  /\ NoRaster

SpecEdges == InitEdges /\ [][Next]_vars

---------------------------------------------------------------------------
(* rasterize_linestring, lib.rs:68-82.                                     *)

Sign(n) == IF n > 0 THEN 1 ELSE IF n < 0 THEN -1 ELSE 0

Abs(n) == IF n < 0 THEN -n ELSE n

\* the sign of (0.5 + ix) / nx - (0.5 + iy) / ny in the iterator the loop of
\* lib.rs:74 drives: +inf - finite when only nx is 0, finite - inf when only
\* ny is 0, and a NaN, which is neither = 0 nor < 0, when both are
Comparison(ix, iy, nx, ny) ==
  IF nx = 0 THEN 1
  ELSE IF ny = 0 THEN -1
  ELSE Sign((1 + 2 * ix) * ny - (1 + 2 * iy) * nx)

RECURSIVE SupercoverFrom(_, _, _, _, _, _, _, _)
\* the cells the iterator yields from point (px, py) on
SupercoverFrom(px, py, ix, iy, nx, ny, sx, sy) ==
  IF ix <= nx /\ iy <= ny
    THEN LET cmp == Comparison(ix, iy, nx, ny)
         IN <<Coord(px, py)>>
            \o (IF cmp = 0
                  THEN SupercoverFrom(px + sx, py + sy, ix + 1, iy + 1, nx, ny, sx, sy)
                ELSE IF cmp < 0
                  THEN SupercoverFrom(px + sx, py, ix + 1, iy, nx, ny, sx, sy)
                ELSE SupercoverFrom(px, py + sy, ix, iy + 1, nx, ny, sx, sy))
    ELSE <<>>

\* Supercover::new((a.x, a.y), (b.x, b.y)), collected
Supercover(a, b) ==
  SupercoverFrom(a.x, a.y, 0, 0, Abs(b.x - a.x), Abs(b.y - a.y),
                 Sign(b.x - a.x), Sign(b.y - a.y))

\* a variant that skips every cell the output already holds
PushCellsUnique(o, cells) ==
  LET f[i \in 0..Len(cells)] ==
        IF i = 0 THEN o
        ELSE IF cells[i] \notin Range(f[i - 1])
          THEN Append(f[i - 1], cells[i])
          ELSE f[i - 1]
  IN f[Len(cells)]

\* lib.rs:74-79: the pushes of one window onto out
PushCells(o, cells) ==
  LET f[i \in 0..Len(cells)] ==
        IF i = 0 THEN o
        ELSE IF f[i - 1] = <<>> \/ Last(f[i - 1]) # cells[i]
          THEN Append(f[i - 1], cells[i])
          ELSE f[i - 1]
  IN f[Len(cells)]

\* one pass of the loop over ls.0.windows(2), lib.rs:73-80
RasterWindow ==
  /\ pc = "raster"
  /\ w + 2 <= Len(ls)
  /\ out' = PushCells(out, Supercover(ls[w + 1], ls[w + 2]))
  /\ w' = w + 1
  /\ UNCHANGED <<asmVars, pc, ls>>

\* lib.rs:81
RasterReturn ==
  /\ pc = "raster"
  /\ w + 2 > Len(ls)
  /\ pc' = "rdone"
  /\ UNCHANGED <<asmVars, rasVars>>

Points == {Coord(x, y) : x \in (-1)..MaxCoord, y \in (-1)..MaxCoord}

Polylines == UNION {[1..n -> Points] : n \in 0..MaxPts}

\* rasterize_linestring(&ls) entered, lib.rs:72
InitRaster ==
  /\ ls \in Polylines
  /\ w = 0
  /\ out = <<>>
  /\ pc = "raster"
  /\ grid = <<>>
  /\ id = 0
  /\ mgrid = <<>>
  /\ pick = <<>>
  /\ InitLocals

NextRaster ==
  \/ RasterWindow
  \/ RasterReturn

SpecRaster == InitRaster /\ [][NextRaster]_vars

---------------------------------------------------------------------------
(* Vocabulary of the properties.                                           *)

\* an edge or a pair of consecutive ring coordinates, as an unordered pair
SegOf(a, b) == {a, b}

\* how often segment s occurs in the edge list es
CountInEdges(es, s) ==
  Cardinality({i \in 1..Len(es) : SegOf(es[i][1], es[i][2]) = s})

\* the positions <<j, i>> of the consecutive pairs of the rings rs
RingSteps(rs) ==
  UNION {{<<j, i>> : i \in 1..(Len(rs[j]) - 1)} : j \in 1..Len(rs)}

StepSeg(rs, q) == SegOf(rs[q[1]][q[2]], rs[q[1]][q[2] + 1])

\* how often segment s is traversed by the rings rs
CountInRings(rs, s) ==
  Cardinality({q \in RingSteps(rs) : StepSeg(rs, q) = s})

SegsOfEdges(es) == {SegOf(es[i][1], es[i][2]) : i \in 1..Len(es)}

SegsOfRings(rs) == {StepSeg(rs, q) : q \in RingSteps(rs)}

\* the four sides of the cell in row r, column c
CellSides(r, c) ==
  {SegOf(Coord(c, r), Coord(c + 1, r)),
   SegOf(Coord(c, r + 1), Coord(c + 1, r + 1)),
   SegOf(Coord(c, r), Coord(c, r + 1)),
   SegOf(Coord(c + 1, r), Coord(c + 1, r + 1))}

\* the unit segments of the vertex lattice of g
LatticeSegs(g) ==
  {SegOf(Coord(c, r), Coord(c + 1, r)) : c \in 0..(g.ncols - 1), r \in 0..g.nrows}
  \cup {SegOf(Coord(c, r), Coord(c, r + 1)) : c \in 0..g.ncols, r \in 0..(g.nrows - 1)}

\* the cells of g carrying label l
CellsOf(g, l) == {q \in DOMAIN g.cells : g.cells[q] = l}

\* the number of cells labelled l that have s as a side (0, 1 or 2)
SidesWith(g, l, s) == Cardinality({q \in CellsOf(g, l) : s \in CellSides(q[1], q[2])})

\* the number of entries of es incident to vertex v
Degree(es, v) ==
  Cardinality({i \in 1..Len(es) : es[i][1] = v})
  + Cardinality({i \in 1..Len(es) : es[i][2] = v})

VerticesOf(es) == {es[i][1] : i \in 1..Len(es)} \cup {es[i][2] : i \in 1..Len(es)}

---------------------------------------------------------------------------
(* Properties of the pipeline marching_squares -> edges_to_multilinestring *)
(* (specification Spec).                                                   *)

\* C1: edge conservation.  At the head of every iteration the segments
\* traversed by the rings so far together with the edges still in the
\* working list are, as a multiset of unordered pairs, the list
\* marching_squares gave for the label; at the return the rings alone are.
EdgeConservation ==
  pc \in {"loop", "done"} =>
    /\ inedges = e[id]
    /\ pc = "done" => edges = <<>>
    /\ \A s \in SegsOfEdges(inedges) \cup SegsOfRings(rings) :
         CountInRings(rings, s) + CountInEdges(edges, s) = CountInEdges(inedges, s)

EdgeConservationWitness ==
  /\ pc = "done"
  /\ Len(rings) >= 2
  /\ \E j \in 1..Len(rings) : Len(rings[j]) > 5

\* a-k and k-b are two sides of one cell labelled id
AroundLabelCell(a, k, b) ==
  /\ a # b
  /\ \E q \in CellsOf(grid, id) :
       /\ SegOf(a, k) \in CellSides(q[1], q[2])
       /\ SegOf(k, b) \in CellSides(q[1], q[2])

\* no two cells labelled l share a side
NoTwoAdjacent(g, l) ==
  \A q1 \in CellsOf(g, l) : \A q2 \in CellsOf(g, l) :
    q1 # q2 => CellSides(q1[1], q1[2]) \cap CellSides(q2[1], q2[2]) = {}

\* the ring traced so far, with the vertex the trace stands on
Path == IF pc = "trace" THEN Append(ring, cur) ELSE ring

\* C2: knot routing.  Wherever a ring passes through a vertex with four
\* neighbours in the adjacency map of its iteration, the segment it arrives
\* by and the segment it leaves by are two sides of one cell labelled id;
\* and when no two cells labelled id share a side, the call returns exactly
\* one 5-coordinate unit-square ring per such cell.
KnotRouting ==
  /\ pc \in {"trace", "close", "loop", "done"} =>
       \A i \in 1..(Len(Path) - 2) :
         (Path[i + 1] \in DOMAIN adj /\ Len(adj[Path[i + 1]]) = 4)
           => AroundLabelCell(Path[i], Path[i + 1], Path[i + 2])
  /\ (pc = "done" /\ NoTwoAdjacent(grid, id)) =>
       /\ Len(rings) = Cardinality(CellsOf(grid, id))
       /\ \A j \in 1..Len(rings) :
            /\ Len(rings[j]) = 5
            /\ \E q \in CellsOf(grid, id) :
                 SegsOfRings(<<rings[j]>>) = CellSides(q[1], q[2])
       /\ \A q \in CellsOf(grid, id) :
            \E j \in 1..Len(rings) : SegsOfRings(<<rings[j]>>) = CellSides(q[1], q[2])

KnotRoutingWitness ==
  /\ pc = "done"
  /\ NoTwoAdjacent(grid, id)
  /\ Len(rings) >= 4
  /\ Degree(inedges, rings[1][2]) = 4

\* C3: after marching_squares the map has exactly the labels of the grid as
\* keys, and the list of label l holds, as unordered pairs, every unit
\* segment of the lattice with a cell labelled l on exactly one side once,
\* and nothing else.
ExtractorExact ==
  pc = "call" =>
    /\ DOMAIN e = LabelsIn(mgrid)
    /\ \A l \in DOMAIN e :
         /\ SegsOfEdges(e[l]) \subseteq LatticeSegs(mgrid)
         /\ \A s \in LatticeSegs(mgrid) :
              CountInEdges(e[l], s) = IF SidesWith(mgrid, l, s) = 1 THEN 1 ELSE 0

ExtractorExactWitness ==
  /\ pc = "call"
  /\ mgrid.nrows >= 2
  /\ mgrid.ncols >= 2
  /\ \E s \in LatticeSegs(mgrid) :
       SidesWith(mgrid, 0, s) = 1 /\ SidesWith(mgrid, 1, s) = 1
  /\ \E s \in LatticeSegs(mgrid) : SidesWith(mgrid, 0, s) = 2
  /\ \E s \in LatticeSegs(mgrid) :
       SidesWith(mgrid, 1, s) = 1 /\ SidesWith(mgrid, 0, s) = 0

\* C4: the degree assertion never fires: the working list at the head of
\* every iteration, and the adjacency map built from it, give every vertex
\* exactly 2 or exactly 4 neighbours.
ManifoldEveryIteration ==
  /\ pc # "panic"
  /\ pc = "loop" =>
       \A v \in VerticesOf(edges) : Degree(edges, v) \in {2, 4}
  /\ pc \in {"trace", "close"} =>
       /\ DOMAIN adj = VerticesOf(edges)
       /\ \A v \in DOMAIN adj :
            Len(adj[v]) = Degree(edges, v) /\ Len(adj[v]) \in {2, 4}

ManifoldEveryIterationWitness ==
  /\ pc = "trace"
  /\ Len(rings) >= 1
  /\ \E v \in DOMAIN adj : Len(adj[v]) = 4

\* C5: every ring pushed is closed and has at least 5 coordinates.
RingsClosed ==
  \A j \in 1..Len(rings) :
    rings[j][1] = Last(rings[j]) /\ Len(rings[j]) >= 5

RingsClosedWitness ==
  /\ pc = "done"
  /\ Len(rings) >= 2
  /\ \E j \in 1..Len(rings) : Len(rings[j]) = 5
  /\ \E j \in 1..Len(rings) : Len(rings[j]) > 5

\* C6: every ring pushed is simple: apart from the repeated start, no
\* coordinate occurs twice in it.
RingsSimple ==
  \A j \in 1..Len(rings) :
    \A a \in 1..(Len(rings[j]) - 1) : \A b \in 1..(Len(rings[j]) - 1) :
      a # b => rings[j][a] # rings[j][b]

\* C7: termination of the assembly.  A trace has pushed fewer vertices
\* than the working list has edges, so it meets its start after finitely
\* many steps; the ring about to be completed takes at least 4 edges off
\* the working list, which therefore shrinks in every iteration; the rings
\* number at most a quarter of the edges; and the call has a next step in
\* every state but the one it returns in.
AssemblyTerminates ==
  /\ pc = "trace" => Len(ring) < Len(edges)
  /\ pc = "close" =>
       Len(Remaining(edges, Closed(ring, start))) + 4 <= Len(edges)
  /\ 4 * Len(rings) <= Len(inedges)
  /\ pc \in {"loop", "trace", "close"} =>
       ENABLED (BuildAdj \/ Step \/ CloseRing \/ Return)
  /\ pc # "panic"

AssemblyTerminatesWitness ==
  /\ pc = "done"
  /\ Len(rings) >= 2
  /\ 4 * Len(rings) = Len(inedges)

---------------------------------------------------------------------------
(* Properties of edges_to_multilinestring on any caller-made list          *)
(* (specification SpecEdges).                                              *)

\* some vertex of the list es has a number of incident entries other than 2 and 4
BadDegree(es) == \E v \in VerticesOf(es) : Degree(es, v) \notin {2, 4}

\* C8: degree validation.  When the list handed over is not empty and has
\* a vertex whose number of incident entries is neither 2 nor 4, the call
\* gets no further than the assertion of its first iteration: it panics
\* there, having traced and pushed nothing.
DegreeValidation ==
  (pc \notin {"ms", "call"} /\ Len(inedges) # 0 /\ BadDegree(inedges)) =>
    /\ pc \in {"loop", "panic"}
    /\ rings = <<>>
    /\ ring = <<>>
    /\ edges = inedges
    /\ pc = "panic" => adj = AdjOf(inedges)

DegreeValidationWitness ==
  /\ pc = "panic"
  /\ BadDegree(inedges)
  /\ \E v \in VerticesOf(inedges) : Degree(inedges, v) = 3
  /\ pick.label # id

\* the list handed over is, as a multiset of unordered pairs, the one
\* marching_squares produces for label id on grid
Consistent ==
  /\ id \in LabelsIn(grid)
  /\ LET own == marching_squares(grid)[id]
     IN \A s \in SegsOfEdges(inedges) \cup SegsOfEdges(own) :
          CountInEdges(inedges, s) = CountInEdges(own, s)

\* C9 as stated: a call whose list is inconsistent with grid and label
\* never returns.
InconsistentNeverReturns == pc = "done" => Consistent

\* C9: the list is not compared with the grid and the label.  The call
\* panics only while a vertex of the working list has a number of incident
\* entries other than 2; a list whose vertices all have exactly 2 incident
\* entries, consistent with grid and label or not, is traced to the end and
\* its rings, closed and covering the list once, are returned.
PanicsOnlyAtDegreeNot2 ==
  /\ pc = "panic" => \E v \in VerticesOf(edges) : Degree(edges, v) # 2
  /\ (pc \notin {"ms", "call"} /\ \A v \in VerticesOf(inedges) : Degree(inedges, v) = 2) =>
       /\ pc # "panic"
       /\ pc = "trace" => Len(ring) < Len(edges)
       /\ pc = "done" =>
            /\ \A j \in 1..Len(rings) : rings[j][1] = Last(rings[j])
            /\ \A s \in SegsOfEdges(inedges) \cup SegsOfRings(rings) :
                 CountInRings(rings, s) = CountInEdges(inedges, s)

PanicsOnlyAtDegreeNot2Witness ==
  /\ pc = "done"
  /\ ~Consistent
  /\ Len(rings) >= 1
  /\ \A v \in VerticesOf(inedges) : Degree(inedges, v) = 2

\* the first entry of the list handed over that no ring pushed so far covers
FirstUncovered ==
  LET left == {i \in 1..Len(inedges) :
                 SegOf(inedges[i][1], inedges[i][2]) \notin SegsOfRings(rings)}
  IN inedges[CHOOSE i \in left : \A j \in left : i <= j]

\* C11: in every iteration the trace starts at the first endpoint of the
\* first edge still in the working list (the earliest emitted edge that no
\* ring pushed so far covers), and that vertex has exactly two incident
\* edges in the working list and exactly two neighbours in the adjacency map
\* of the iteration: no trace is started at a vertex with four neighbours.
StartHasTwoNeighbours ==
  pc \in {"trace", "close"} =>
    /\ edges # <<>>
    /\ edges[1] = FirstUncovered
    /\ start = edges[1][1]
    /\ Degree(edges, start) = 2
    /\ Len(adj[start]) = 2

\* a second or later trace started while the working list still has a
\* vertex with four neighbours
StartHasTwoNeighboursWitness ==
  /\ pc = "trace"
  /\ ring = <<>>
  /\ Len(rings) >= 1
  /\ \E v \in DOMAIN adj : Len(adj[v]) = 4 /\ Degree(edges, v) = 4
  /\ Len(adj[start]) = 2

---------------------------------------------------------------------------
(* Properties of rasterize_linestring (specification SpecRaster).          *)

\* the traversals of the first n windows of the polyline p, one after another
Traversals(p, n) ==
  LET f[i \in 0..n] ==
        IF i = 0 THEN <<>> ELSE f[i - 1] \o Supercover(p[i], p[i + 1])
  IN f[n]

\* the positions of s whose cell differs from the cell right before it
KeptPositions(s) == {i \in 1..Len(s) : i = 1 \/ s[i] # s[i - 1]}

\* the number of kept positions up to i
Rank(s, i) == Cardinality({k \in KeptPositions(s) : k <= i})

\* s without the cells that repeat the cell right before them
WithoutRepeats(s) ==
  [n \in 1..Cardinality(KeptPositions(s)) |->
     s[CHOOSE i \in KeptPositions(s) : Rank(s, i) = n]]

\* C10: after every window, and at the return, the output is the
\* concatenation of the traversals of the windows taken so far, each running
\* from the window's first vertex to its second, less the cells that repeat
\* the cell before them; so no two consecutive cells of it are equal, and a
\* polyline with fewer than two vertices gives the empty output.
RasterIsLocalDedup ==
  pc \in {"raster", "rdone"} =>
    /\ out = WithoutRepeats(Traversals(ls, w))
    /\ \A i \in 1..w :
         LET t == Supercover(ls[i], ls[i + 1])
         IN t # <<>> /\ t[1] = ls[i] /\ Last(t) = ls[i + 1]
    /\ \A i \in 1..(Len(out) - 1) : out[i] # out[i + 1]
    /\ pc = "rdone" => (w = Len(ls) - 1 \/ (w = 0 /\ Len(ls) < 2))
    /\ (pc = "rdone" /\ Len(ls) < 2) => out = <<>>

\* a returned output that revisits a cell and from which a repeat was left out
RasterIsLocalDedupWitness ==
  /\ pc = "rdone"
  /\ Len(ls) = 3
  /\ Len(out) < Len(Traversals(ls, w))
  /\ \E i \in 1..Len(out) : \E j \in 1..Len(out) : j > i + 1 /\ out[i] = out[j]

====
